---- MODULE Spec2Model ----
(***************************************************************************)
(* Supply-chain canister (src/supply_chain_backend/src/lib.rs): three      *)
(* stable maps (clients, suppliers, orders) and one shared id counter.     *)
(* Every update call is one atomic step: the host runs a message to        *)
(* completion, and a trap (panic) rolls the message's writes back.         *)
(* result and issued are history variables: what the last call returned,   *)
(* and the ids the add_* calls have handed out.                            *)
(***************************************************************************)
EXTENDS Integers, Sequences, FiniteSets, TLC

\* ---------------------------------------------------------------- bounds
\* Largest value the id counter reaches in the model. The counter is a u64 and
\* current_id + 1 cannot overflow within any number of calls a canister lives
\* to see; the handlers' guard counter < MaxId is the model's cut-off.
MaxId == 4
\* Value at which the model's host clock stops.
MaxTime == 2

\* ids a caller may pass: the ids the counter can hand out (an id names no
\* record before it is handed out, after its order is deleted, and in the two
\* stores of the other kinds)
IdRange == 0..(MaxId - 1)

\* Option<T>: None is the empty sequence, Some(v) the one-element sequence
None == <<>>
Some(v) == <<v>>

\* ---------------------------------------------------------------- inputs
\* names and phone numbers on both sides of the length limits
Names == {"ab", "Acme"}
Phones == {"555123", "5551234", "1234567890123456"}
Emails == {"a@x.io"}
PreferedItems == {<<"bolts">>}
Products == [k \in {"bolts"} |-> 2]
ItemTypes == <<"bolts">>

ClientPayload == [name : Names, email : Emails, phone : Phones]
SupplierPayload ==
    [name : Names, email : Emails, phone : Phones, prefered_items : PreferedItems]
\* order payloads with a title: every client_id, supplier_id and is_complete
TitledOrderPayload ==
    [title : {"bolts"}, client_id : IdRange, supplier_id : IdRange,
     products : {Products}, items_types : {ItemTypes}, is_complete : BOOLEAN]
\* order payloads with an empty title: one per id, sent as client and supplier
\* (no id is both, so each of them also names a missing client or supplier)
UntitledOrderPayload ==
    {[title |-> "", client_id |-> i, supplier_id |-> i, products |-> Products,
      items_types |-> ItemTypes, is_complete |-> TRUE] : i \in IdRange}
OrderPayload == TitledOrderPayload \cup UntitledOrderPayload
AddOrderSupplierPayload == [order_id : IdRange, supplier_id : IdRange]

\* ----------------------------------------------------------------- state
VARIABLES
    counter,    \* ID_COUNTER
    clients,    \* CLIENT_STORAGE : id -> Client
    suppliers,  \* SUPPLIER_STORAGE : id -> Supplier
    orders,     \* ORDERS : id -> Order
    now,        \* the value the host clock time() returns next
    result,     \* the last call: operation, outcome, returned value
    issued      \* history: ids returned by successful add_* calls so far

vars == <<counter, clients, suppliers, orders, now, result, issued>>

\* ------------------------------------------------------------ validation
\* #[validate(length(min = 3))] name, #[validate(length(min = 7, max = 15))] phone
ClientPayloadValid(p) ==
    /\ Len(p.name) >= 3
    /\ Len(p.phone) >= 7
    /\ Len(p.phone) <= 15

SupplierPayloadValid(p) ==
    /\ Len(p.name) >= 3
    /\ Len(p.phone) >= 7
    /\ Len(p.phone) <= 15

\* #[validate(length(min = 1))] title
OrderPayloadValid(p) == Len(p.title) >= 1

\* --------------------------------------------------------------- helpers
\* StableBTreeMap::insert
MapInsert(m, k, v) == [x \in (DOMAIN m) \cup {k} |-> IF x = k THEN v ELSE m[x]]
\* StableBTreeMap::remove
MapRemove(m, k) == [x \in (DOMAIN m) \ {k} |-> m[x]]

\* (variants: a counter that is written back unchanged, and a one-bit counter)
NextCounterStuck(current_id) == current_id
NextCounterWrap(current_id) == (current_id + 1) % 2

\* the value the counter holds after one allocation (current_id + 1); the id
\* handed out is the value it held before (what Cell::set returns)
NextCounter(current_id) == current_id + 1

\* (variants that skip the lookup)
is_client_id_valid_any(client_id) == TRUE
is_supplier_id_valid_any(supplier_id) == TRUE

is_client_id_valid(client_id) == client_id \in DOMAIN clients
is_supplier_id_valid(supplier_id) == supplier_id \in DOMAIN suppliers

_insert_client(m, client) == MapInsert(m, client.id, client)
_insert_supplier(m, supplier) == MapInsert(m, supplier.id, supplier)
_insert_order(m, order) == MapInsert(m, order.id, order)

\* time(): every call that reads the host clock sees a later time than the
\* call before it, until the model's clock stops at MaxTime; from then on
\* calls read equal times (as calls of one consensus round do)
TimeNow == {now}
Tick(t) == IF t < MaxTime THEN t + 1 ELSE t

\* the record of a call
Call(op, status, value) == [op |-> op, status |-> status, value |-> value]

\* ------------------------------------------------------------------ Init
Init ==
    /\ counter = 0
    /\ clients = <<>>
    /\ suppliers = <<>>
    /\ orders = <<>>
    /\ now = 0
    /\ result = Call("init", "Ok", None)
    /\ issued = {}

\* --------------------------------------------------------------- actions
add_client(payload) ==
    IF ~ClientPayloadValid(payload)
    THEN /\ result' = Call("add_client", "InvalidPayload", None)
         /\ UNCHANGED <<counter, clients, suppliers, orders, now, issued>>
    ELSE /\ counter < MaxId
         /\ \E t \in TimeNow :
             LET id == counter
                 client == [id |-> id, name |-> payload.name,
                            email |-> payload.email, phone |-> payload.phone,
                            order_ids |-> <<>>, created_at |-> t,
                            updated_at |-> None]
             IN /\ counter' = NextCounter(counter)
                /\ clients' = _insert_client(clients, client)
                /\ now' = Tick(t)
                /\ result' = Call("add_client", "Ok", Some(client))
                /\ issued' = issued \cup {id}
                /\ UNCHANGED <<suppliers, orders>>

add_supplier(payload) ==
    IF ~SupplierPayloadValid(payload)
    THEN /\ result' = Call("add_supplier", "InvalidPayload", None)
         /\ UNCHANGED <<counter, clients, suppliers, orders, now, issued>>
    ELSE /\ counter < MaxId
         /\ \E t \in TimeNow :
             LET id == counter
                 supplier == [id |-> id, name |-> payload.name,
                              email |-> payload.email, phone |-> payload.phone,
                              prefered_items |-> payload.prefered_items,
                              order_ids |-> <<>>, created_at |-> t,
                              updated_at |-> None]
             IN /\ counter' = NextCounter(counter)
                /\ suppliers' = _insert_supplier(suppliers, supplier)
                /\ now' = Tick(t)
                /\ result' = Call("add_supplier", "Ok", Some(supplier))
                /\ issued' = issued \cup {id}
                /\ UNCHANGED <<clients, orders>>

\* (a variant that takes supplier_id and is_complete from the payload)
add_order_from_payload(payload) ==
    IF ~OrderPayloadValid(payload)
    THEN /\ result' = Call("add_order", "InvalidPayload", None)
         /\ UNCHANGED <<counter, clients, suppliers, orders, now, issued>>
    ELSE IF ~is_client_id_valid(payload.client_id)
    THEN /\ result' = Call("add_order", "NotFound", None)
         /\ UNCHANGED <<counter, clients, suppliers, orders, now, issued>>
    ELSE /\ counter < MaxId
         /\ \E t \in TimeNow :
             LET id == counter
                 order == [id |-> id, title |-> payload.title,
                           client_id |-> payload.client_id,
                           supplier_id |-> Some(payload.supplier_id),
                           products |-> payload.products,
                           item_types |-> payload.items_types,
                           is_complete |-> payload.is_complete, created_at |-> t,
                           updated_at |-> None]
             IN /\ counter' = NextCounter(counter)
                /\ orders' = _insert_order(orders, order)
                /\ now' = Tick(t)
                /\ result' = Call("add_order", "Ok", Some(order))
                /\ issued' = issued \cup {id}
                /\ UNCHANGED <<clients, suppliers>>

add_order(payload) ==
    IF ~OrderPayloadValid(payload)
    THEN /\ result' = Call("add_order", "InvalidPayload", None)
         /\ UNCHANGED <<counter, clients, suppliers, orders, now, issued>>
    ELSE IF ~is_client_id_valid(payload.client_id)
    THEN /\ result' = Call("add_order", "NotFound", None)
         /\ UNCHANGED <<counter, clients, suppliers, orders, now, issued>>
    ELSE /\ counter < MaxId
         /\ \E t \in TimeNow :
             LET id == counter
                 order == [id |-> id, title |-> payload.title,
                           client_id |-> payload.client_id,
                           supplier_id |-> None,
                           products |-> payload.products,
                           item_types |-> payload.items_types,
                           is_complete |-> FALSE, created_at |-> t,
                           updated_at |-> None]
             IN /\ counter' = NextCounter(counter)
                /\ orders' = _insert_order(orders, order)
                /\ now' = Tick(t)
                /\ result' = Call("add_order", "Ok", Some(order))
                /\ issued' = issued \cup {id}
                /\ UNCHANGED <<clients, suppliers>>

\* (a variant that puts the order back to incomplete)
add_order_supplier_reopen(payload) ==
    IF payload.order_id \notin DOMAIN orders
    THEN /\ result' = Call("add_order_supplier", "NotFound", None)
         /\ UNCHANGED <<counter, clients, suppliers, orders, now, issued>>
    ELSE IF ~is_supplier_id_valid(payload.supplier_id)
    THEN /\ result' = Call("add_order_supplier", "NotFound", None)
         /\ UNCHANGED <<counter, clients, suppliers, orders, now, issued>>
    ELSE \E t \in TimeNow :
        LET order == [orders[payload.order_id] EXCEPT
                          !.supplier_id = Some(payload.supplier_id),
                          !.is_complete = FALSE,
                          !.updated_at = Some(t)]
        IN /\ orders' = _insert_order(orders, order)
           /\ now' = Tick(t)
           /\ result' = Call("add_order_supplier", "Ok", Some(order))
           /\ UNCHANGED <<counter, clients, suppliers, issued>>

add_order_supplier(payload) ==
    IF payload.order_id \notin DOMAIN orders
    THEN /\ result' = Call("add_order_supplier", "NotFound", None)
         /\ UNCHANGED <<counter, clients, suppliers, orders, now, issued>>
    ELSE IF ~is_supplier_id_valid(payload.supplier_id)
    THEN /\ result' = Call("add_order_supplier", "NotFound", None)
         /\ UNCHANGED <<counter, clients, suppliers, orders, now, issued>>
    ELSE \E t \in TimeNow :
        LET order == [orders[payload.order_id] EXCEPT
                          !.supplier_id = Some(payload.supplier_id),
                          !.updated_at = Some(t)]
        IN /\ orders' = _insert_order(orders, order)
           /\ now' = Tick(t)
           /\ result' = Call("add_order_supplier", "Ok", Some(order))
           /\ UNCHANGED <<counter, clients, suppliers, issued>>

\* (a variant that forgets the supplier's list)
_update_ids_client_only(order) ==
    LET client == clients[order.client_id]
    IN /\ clients' = MapInsert(clients, client.id,
                         [client EXCEPT !.order_ids = Append(@, order.id)])
       /\ UNCHANGED suppliers

\* (a variant that puts the id at the head of the lists)
_update_ids_prepend(order) ==
    LET client == clients[order.client_id]
        supplier == suppliers[order.supplier_id[1]]
    IN /\ clients' = MapInsert(clients, client.id,
                         [client EXCEPT !.order_ids = <<order.id>> \o @])
       /\ suppliers' = MapInsert(suppliers, supplier.id,
                         [supplier EXCEPT !.order_ids = <<order.id>> \o @])

\* appends the order's id to its client's and to its supplier's order_ids
_update_ids(order) ==
    LET client == clients[order.client_id]
        supplier == suppliers[order.supplier_id[1]]
    IN /\ clients' = MapInsert(clients, client.id,
                         [client EXCEPT !.order_ids = Append(@, order.id)])
       /\ suppliers' = MapInsert(suppliers, supplier.id,
                         [supplier EXCEPT !.order_ids = Append(@, order.id)])

\* (a variant without the AlreadyCompleted check)
complete_order_again(id) ==
    IF id \notin DOMAIN orders
    THEN /\ result' = Call("complete_order", "NotFound", None)
         /\ UNCHANGED <<counter, clients, suppliers, orders, now, issued>>
    ELSE IF \/ ~is_client_id_valid(orders[id].client_id)
            \/ orders[id].supplier_id = None
            \/ ~is_supplier_id_valid(orders[id].supplier_id[1])
    THEN /\ result' = Call("complete_order", "NotFound", None)
         /\ UNCHANGED <<counter, clients, suppliers, orders, now, issued>>
    ELSE \E t \in TimeNow :
        LET order == [orders[id] EXCEPT !.is_complete = TRUE,
                                        !.updated_at = Some(t)]
        IN /\ orders' = _insert_order(orders, order)
           /\ _update_ids(order)
           /\ now' = Tick(t)
           /\ result' = Call("complete_order", "Ok", Some(order))
           /\ UNCHANGED <<counter, issued>>

\* (a variant that persists the completed order before it checks the links)
complete_order_write_first(id) ==
    IF id \notin DOMAIN orders
    THEN /\ result' = Call("complete_order", "NotFound", None)
         /\ UNCHANGED <<counter, clients, suppliers, orders, now, issued>>
    ELSE IF orders[id].is_complete
    THEN /\ result' = Call("complete_order", "AlreadyCompleted", None)
         /\ UNCHANGED <<counter, clients, suppliers, orders, now, issued>>
    ELSE \E t \in TimeNow :
        LET order == [orders[id] EXCEPT !.is_complete = TRUE,
                                        !.updated_at = Some(t)]
        IN /\ orders' = _insert_order(orders, order)
           /\ now' = Tick(t)
           /\ IF \/ ~is_client_id_valid(order.client_id)
                 \/ order.supplier_id = None
                 \/ ~is_supplier_id_valid(order.supplier_id[1])
              THEN /\ result' = Call("complete_order", "NotFound", None)
                   /\ UNCHANGED <<clients, suppliers>>
              ELSE /\ _update_ids(order)
                   /\ result' = Call("complete_order", "Ok", Some(order))
           /\ UNCHANGED <<counter, issued>>

complete_order(id) ==
    IF id \notin DOMAIN orders
    THEN /\ result' = Call("complete_order", "NotFound", None)
         /\ UNCHANGED <<counter, clients, suppliers, orders, now, issued>>
    ELSE IF orders[id].is_complete
    THEN /\ result' = Call("complete_order", "AlreadyCompleted", None)
         /\ UNCHANGED <<counter, clients, suppliers, orders, now, issued>>
    ELSE IF \/ ~is_client_id_valid(orders[id].client_id)
            \/ orders[id].supplier_id = None
            \/ ~is_supplier_id_valid(orders[id].supplier_id[1])
    THEN /\ result' = Call("complete_order", "NotFound", None)
         /\ UNCHANGED <<counter, clients, suppliers, orders, now, issued>>
    ELSE \E t \in TimeNow :
        LET order == [orders[id] EXCEPT !.is_complete = TRUE,
                                        !.updated_at = Some(t)]
        IN /\ orders' = _insert_order(orders, order)
           /\ IF order.is_complete
              THEN _update_ids(order)
              ELSE UNCHANGED <<clients, suppliers>>
           /\ now' = Tick(t)
           /\ result' = Call("complete_order", "Ok", Some(order))
           /\ UNCHANGED <<counter, issued>>

\* (a variant that takes is_complete from the payload)
update_order_from_payload(id, payload) ==
    IF id \notin DOMAIN orders
    THEN /\ result' = Call("update_order", "Trap", None)
         /\ UNCHANGED <<counter, clients, suppliers, orders, now, issued>>
    ELSE IF ~OrderPayloadValid(payload)
    THEN /\ result' = Call("update_order", "InvalidPayload", None)
         /\ UNCHANGED <<counter, clients, suppliers, orders, now, issued>>
    ELSE IF \/ ~is_client_id_valid(payload.client_id)
            \/ ~is_supplier_id_valid(payload.supplier_id)
    THEN /\ result' = Call("update_order", "NotFound", None)
         /\ UNCHANGED <<counter, clients, suppliers, orders, now, issued>>
    ELSE \E t \in TimeNow :
        LET order == orders[id]
            updated_order == [id |-> order.id, title |-> payload.title,
                              client_id |-> payload.client_id,
                              supplier_id |-> Some(payload.supplier_id),
                              item_types |-> payload.items_types,
                              products |-> payload.products,
                              is_complete |-> payload.is_complete,
                              created_at |-> order.created_at,
                              updated_at |-> Some(t)]
        IN /\ orders' = _insert_order(orders, updated_order)
           /\ now' = Tick(t)
           /\ result' = Call("update_order", "Ok", Some(updated_order))
           /\ UNCHANGED <<counter, clients, suppliers, issued>>

\* (a variant that leaves the order's supplier as it was)
update_order_keep_supplier(id, payload) ==
    IF id \notin DOMAIN orders
    THEN /\ result' = Call("update_order", "Trap", None)
         /\ UNCHANGED <<counter, clients, suppliers, orders, now, issued>>
    ELSE IF ~OrderPayloadValid(payload)
    THEN /\ result' = Call("update_order", "InvalidPayload", None)
         /\ UNCHANGED <<counter, clients, suppliers, orders, now, issued>>
    ELSE IF \/ ~is_client_id_valid(payload.client_id)
            \/ ~is_supplier_id_valid(payload.supplier_id)
    THEN /\ result' = Call("update_order", "NotFound", None)
         /\ UNCHANGED <<counter, clients, suppliers, orders, now, issued>>
    ELSE \E t \in TimeNow :
        LET order == orders[id]
            updated_order == [id |-> order.id, title |-> payload.title,
                              client_id |-> payload.client_id,
                              supplier_id |-> order.supplier_id,
                              item_types |-> payload.items_types,
                              products |-> payload.products,
                              is_complete |-> order.is_complete,
                              created_at |-> order.created_at,
                              updated_at |-> Some(t)]
        IN /\ orders' = _insert_order(orders, updated_order)
           /\ now' = Tick(t)
           /\ result' = Call("update_order", "Ok", Some(updated_order))
           /\ UNCHANGED <<counter, clients, suppliers, issued>>

\* .expect("order does not exist") panics on a missing id: the call traps,
\* the host rolls the message back and the caller gets no Error value
update_order(id, payload) ==
    IF id \notin DOMAIN orders
    THEN /\ result' = Call("update_order", "Trap", None)
         /\ UNCHANGED <<counter, clients, suppliers, orders, now, issued>>
    ELSE IF ~OrderPayloadValid(payload)
    THEN /\ result' = Call("update_order", "InvalidPayload", None)
         /\ UNCHANGED <<counter, clients, suppliers, orders, now, issued>>
    ELSE IF \/ ~is_client_id_valid(payload.client_id)
            \/ ~is_supplier_id_valid(payload.supplier_id)
    THEN /\ result' = Call("update_order", "NotFound", None)
         /\ UNCHANGED <<counter, clients, suppliers, orders, now, issued>>
    ELSE \E t \in TimeNow :
        LET order == orders[id]
            updated_order == [id |-> order.id, title |-> payload.title,
                              client_id |-> payload.client_id,
                              supplier_id |-> Some(payload.supplier_id),
                              item_types |-> payload.items_types,
                              products |-> payload.products,
                              is_complete |-> order.is_complete,
                              created_at |-> order.created_at,
                              updated_at |-> Some(t)]
        IN /\ orders' = _insert_order(orders, updated_order)
           /\ now' = Tick(t)
           /\ result' = Call("update_order", "Ok", Some(updated_order))
           /\ UNCHANGED <<counter, clients, suppliers, issued>>

\* (a variant that also takes the id off every client's order_ids)
delete_order_retract(id) ==
    IF id \in DOMAIN orders
    THEN /\ orders' = MapRemove(orders, id)
         /\ clients' = [c \in DOMAIN clients |->
                [clients[c] EXCEPT
                     !.order_ids = SelectSeq(@, LAMBDA x : x # id)]]
         /\ result' = Call("delete_order", "Ok", Some(orders[id]))
         /\ UNCHANGED <<counter, suppliers, now, issued>>
    ELSE /\ result' = Call("delete_order", "NotFound", None)
         /\ UNCHANGED <<counter, clients, suppliers, orders, now, issued>>

delete_order(id) ==
    IF id \in DOMAIN orders
    THEN /\ orders' = MapRemove(orders, id)
         /\ result' = Call("delete_order", "Ok", Some(orders[id]))
         /\ UNCHANGED <<counter, clients, suppliers, now, issued>>
    ELSE /\ result' = Call("delete_order", "NotFound", None)
         /\ UNCHANGED <<counter, clients, suppliers, orders, now, issued>>

\* ---------------------------------------------------------------- queries
\* A query reads the stores and persists nothing: each one is an operator on
\* the current state that yields its reply.
Reply(status, value) == [status |-> status, value |-> value]

\* the values of the map m in ascending key order
RECURSIVE Iter(_, _)
Iter(m, keys) ==
    IF keys = {}
    THEN <<>>
    ELSE LET k == CHOOSE x \in keys : \A y \in keys : x <= y
         IN <<m[k]>> \o Iter(m, keys \ {k})

\* (a variant that returns an empty list as it is)
OkOrNotFoundUnchecked(list) == Reply("Ok", list)

\* Ok(list) for a list that is not empty, Err(NotFound) for an empty one
OkOrNotFound(list) ==
    IF list # <<>> THEN Reply("Ok", list) ELSE Reply("NotFound", None)

\* (a variant that also looks into the Supplier store)
_get_client_or_supplier(id) ==
    IF id \in DOMAIN clients THEN Some(clients[id])
    ELSE IF id \in DOMAIN suppliers THEN Some(suppliers[id])
    ELSE None

_get_client(id) == IF id \in DOMAIN clients THEN Some(clients[id]) ELSE None

get_client(id) ==
    IF _get_client(id) # None
    THEN Reply("Ok", _get_client(id)[1])
    ELSE Reply("NotFound", None)

get_orders == OkOrNotFound(Iter(orders, DOMAIN orders))

get_incomplete_orders ==
    OkOrNotFound(SelectSeq(Iter(orders, DOMAIN orders),
                           LAMBDA order : ~order.is_complete))

get_completed_orders ==
    OkOrNotFound(SelectSeq(Iter(orders, DOMAIN orders),
                           LAMBDA order : order.is_complete))

\* (a variant that goes by the client's order_ids)
get_client_orders_by_ids(client_id) ==
    IF ~is_client_id_valid(client_id)
    THEN Reply("NotFound", None)
    ELSE OkOrNotFound(SelectSeq(Iter(orders, DOMAIN orders),
             LAMBDA order :
                 \E i \in DOMAIN clients[client_id].order_ids :
                     clients[client_id].order_ids[i] = order.id))

get_client_orders(client_id) ==
    IF ~is_client_id_valid(client_id)
    THEN Reply("NotFound", None)
    ELSE OkOrNotFound(SelectSeq(Iter(orders, DOMAIN orders),
                                LAMBDA order : order.client_id = client_id))

get_supplier_orders(supplier_id) ==
    IF ~is_supplier_id_valid(supplier_id)
    THEN Reply("NotFound", None)
    ELSE OkOrNotFound(SelectSeq(Iter(orders, DOMAIN orders),
             LAMBDA order : order.supplier_id = Some(supplier_id)))

get_supplier_completed_orders(supplier_id) ==
    IF ~is_supplier_id_valid(supplier_id)
    THEN Reply("NotFound", None)
    ELSE OkOrNotFound(SelectSeq(Iter(orders, DOMAIN orders),
             LAMBDA order : /\ order.supplier_id = Some(supplier_id)
                            /\ order.is_complete))

\* filter_orders_by_criteria: every criterion is optional, an absent one
\* matches every order
NoCriteria ==
    [start_date |-> None, end_date |-> None, is_complete |-> None,
     client_id |-> None, supplier_id |-> None, product |-> None]

\* the criteria the queries are asked with
Criteria ==
    {[NoCriteria EXCEPT !.is_complete = c, !.client_id = k] :
         c \in {None, Some(TRUE), Some(FALSE)},
         k \in {None} \cup {Some(i) : i \in IdRange}}
    \cup {[NoCriteria EXCEPT !.is_complete = c, !.supplier_id = Some(k)] :
         c \in {None, Some(TRUE), Some(FALSE)}, k \in IdRange}
    \cup {[NoCriteria EXCEPT !.product = Some(x)] : x \in {"bolts", "nuts"}}
    \cup {[NoCriteria EXCEPT !.start_date = Some(t)] : t \in {1}}
    \cup {[NoCriteria EXCEPT !.end_date = Some(t)] : t \in {0}}
    \cup {[NoCriteria EXCEPT !.start_date = Some(t), !.end_date = Some(t)] :
         t \in 0..MaxTime}

\* (a variant where one matching criterion is enough)
filter_orders_by_criteria_any(criteria) ==
    OkOrNotFound(SelectSeq(Iter(orders, DOMAIN orders),
        LAMBDA order :
            \/ criteria.start_date = None
            \/ order.created_at >= criteria.start_date[1]
            \/ criteria.end_date = None
            \/ order.created_at <= criteria.end_date[1]
            \/ criteria.is_complete = None
            \/ order.is_complete = criteria.is_complete[1]
            \/ criteria.client_id = None
            \/ order.client_id = criteria.client_id[1]
            \/ criteria.supplier_id = None
            \/ order.supplier_id = criteria.supplier_id
            \/ criteria.product = None
            \/ criteria.product[1] \in DOMAIN order.products))

filter_orders_by_criteria(criteria) ==
    OkOrNotFound(SelectSeq(Iter(orders, DOMAIN orders),
        LAMBDA order :
            /\ \/ criteria.start_date = None
               \/ order.created_at >= criteria.start_date[1]
            /\ \/ criteria.end_date = None
               \/ order.created_at <= criteria.end_date[1]
            /\ \/ criteria.is_complete = None
               \/ order.is_complete = criteria.is_complete[1]
            /\ \/ criteria.client_id = None
               \/ order.client_id = criteria.client_id[1]
            /\ \/ criteria.supplier_id = None
               \/ order.supplier_id = criteria.supplier_id
            /\ \/ criteria.product = None
               \/ criteria.product[1] \in DOMAIN order.products))

\* ---------------------------------------------------------- specification

Next ==
    \/ \E payload \in ClientPayload : add_client(payload)
    \/ \E payload \in SupplierPayload : add_supplier(payload)
    \/ \E payload \in OrderPayload : add_order(payload)
    \/ \E payload \in AddOrderSupplierPayload : add_order_supplier(payload)
    \/ \E id \in IdRange : complete_order(id)
    \/ \E id \in IdRange, payload \in OrderPayload : update_order(id, payload)
    \/ \E id \in IdRange : delete_order(id)

Spec == Init /\ [][Next]_vars
\* ------------------------------------------- complete_order, write by write
\* A second specification takes complete_order one store write at a time and
\* lets the host stop the call between two writes. While a call is in flight
\* result.status tells how far it has got ("OrderWritten", "ClientWritten")
\* and result.value holds the order it is completing; the host starts no
\* other call before this one has ended.
InFlight == {"OrderWritten", "ClientWritten"}
Idle == result.status \notin InFlight

\* (a variant without the AlreadyCompleted check)
complete_order_persist_again(id) ==
    IF id \notin DOMAIN orders
    THEN /\ result' = Call("complete_order", "NotFound", None)
         /\ UNCHANGED <<counter, clients, suppliers, orders, now, issued>>
    ELSE IF \/ ~is_client_id_valid(orders[id].client_id)
            \/ orders[id].supplier_id = None
            \/ ~is_supplier_id_valid(orders[id].supplier_id[1])
    THEN /\ result' = Call("complete_order", "NotFound", None)
         /\ UNCHANGED <<counter, clients, suppliers, orders, now, issued>>
    ELSE \E t \in TimeNow :
        LET order == [orders[id] EXCEPT !.is_complete = TRUE,
                                        !.updated_at = Some(t)]
        IN /\ orders' = _insert_order(orders, order)
           /\ now' = Tick(t)
           /\ result' = Call("complete_order", "OrderWritten", Some(order))
           /\ UNCHANGED <<counter, clients, suppliers, issued>>

\* complete_order up to and including _insert_order(&order)
complete_order_persist(id) ==
    IF id \notin DOMAIN orders
    THEN /\ result' = Call("complete_order", "NotFound", None)
         /\ UNCHANGED <<counter, clients, suppliers, orders, now, issued>>
    ELSE IF orders[id].is_complete
    THEN /\ result' = Call("complete_order", "AlreadyCompleted", None)
         /\ UNCHANGED <<counter, clients, suppliers, orders, now, issued>>
    ELSE IF \/ ~is_client_id_valid(orders[id].client_id)
            \/ orders[id].supplier_id = None
            \/ ~is_supplier_id_valid(orders[id].supplier_id[1])
    THEN /\ result' = Call("complete_order", "NotFound", None)
         /\ UNCHANGED <<counter, clients, suppliers, orders, now, issued>>
    ELSE \E t \in TimeNow :
        LET order == [orders[id] EXCEPT !.is_complete = TRUE,
                                        !.updated_at = Some(t)]
        IN /\ orders' = _insert_order(orders, order)
           /\ now' = Tick(t)
           /\ result' = Call("complete_order", "OrderWritten", Some(order))
           /\ UNCHANGED <<counter, clients, suppliers, issued>>

\* _update_ids, first half: the client's record
_update_ids_client ==
    /\ result.status = "OrderWritten"
    /\ LET order == result.value[1]
           client == clients[order.client_id]
       IN /\ clients' = MapInsert(clients, client.id,
                            [client EXCEPT !.order_ids = Append(@, order.id)])
          /\ result' = Call("complete_order", "ClientWritten", Some(order))
    /\ UNCHANGED <<counter, suppliers, orders, now, issued>>

\* _update_ids, second half: the supplier's record; the call then returns
_update_ids_supplier ==
    /\ result.status = "ClientWritten"
    /\ LET order == result.value[1]
           supplier == suppliers[order.supplier_id[1]]
       IN /\ suppliers' = MapInsert(suppliers, supplier.id,
                            [supplier EXCEPT !.order_ids = Append(@, order.id)])
          /\ result' = Call("complete_order", "Ok", Some(order))
    /\ UNCHANGED <<counter, clients, orders, now, issued>>

\* the host stops the call in flight; what it has written stays written
host_fault ==
    /\ result.status \in InFlight
    /\ result' = Call("complete_order", "Fault", None)
    /\ UNCHANGED <<counter, clients, suppliers, orders, now, issued>>

\* the order payloads of the second specification: the ones that pass
\* validation, with the is_complete the handlers never read left false
FaultOrderPayload == {payload \in TitledOrderPayload : ~payload.is_complete}

FaultNext ==
    \/ Idle /\ \E payload \in ClientPayload : add_client(payload)
    \/ Idle /\ \E payload \in SupplierPayload : add_supplier(payload)
    \/ Idle /\ \E payload \in FaultOrderPayload : add_order(payload)
    \/ Idle /\ \E payload \in AddOrderSupplierPayload :
                   add_order_supplier(payload)
    \/ Idle /\ \E id \in IdRange : complete_order_persist(id)
    \/ _update_ids_client
    \/ _update_ids_supplier
    \/ host_fault
    \/ Idle /\ \E id \in IdRange, payload \in FaultOrderPayload :
                   update_order(id, payload)
    \/ Idle /\ \E id \in IdRange : delete_order(id)

FaultSpec == Init /\ [][FaultNext]_vars

\* ------------------------------------------------------------ properties
AddOps == {"add_client", "add_supplier", "add_order"}
\* the stores and the counter: everything a call may persist
stores == <<counter, clients, suppliers, orders>>
\* how often id occurs in the list ids
Occurrences(ids, id) == Cardinality({i \in DOMAIN ids : ids[i] = id})
\* ids that were handed out and are in no store any more (deleted orders)
Retired == issued \ (DOMAIN clients \cup DOMAIN suppliers \cup DOMAIN orders)

\* C1: every successful add_client, add_supplier and add_order returns an id
\* greater than every id an earlier successful add_* returned (so none is
\* returned twice), whatever was deleted in between, and the counter never
\* decreases.
C1_IdsStrictlyIncreasing ==
    [][/\ counter' >= counter
       /\ (result'.op \in AddOps /\ result'.status = "Ok")
              => \A earlier \in issued : result'.value[1].id > earlier]_vars

\* an add_order has succeeded after an order with a smaller id was deleted
C1_Witness ==
    /\ result.op = "add_order"
    /\ result.status = "Ok"
    /\ \E gone \in Retired : gone < result.value[1].id

\* C2: the key sets of the Client, Supplier and Order stores are pairwise
\* disjoint.
C2_StoresDisjoint ==
    /\ DOMAIN clients \cap DOMAIN suppliers = {}
    /\ DOMAIN clients \cap DOMAIN orders = {}
    /\ DOMAIN suppliers \cap DOMAIN orders = {}

\* all three stores hold a record
C2_Witness ==
    /\ DOMAIN clients # {}
    /\ DOMAIN suppliers # {}
    /\ DOMAIN orders # {}

\* C3: right after a successful complete_order(id) the stored order is
\* complete, and the order_ids of its client and of its supplier each contain
\* id exactly once.
C3_CompleteLinksOnce ==
    (result.op = "complete_order" /\ result.status = "Ok") =>
        LET id == result.value[1].id
        IN /\ id \in DOMAIN orders
           /\ orders[id].is_complete
           /\ orders[id].client_id \in DOMAIN clients
           /\ Occurrences(clients[orders[id].client_id].order_ids, id) = 1
           /\ orders[id].supplier_id # None
           /\ orders[id].supplier_id[1] \in DOMAIN suppliers
           /\ Occurrences(suppliers[orders[id].supplier_id[1]].order_ids, id) = 1

\* a completion of a second order of a client: its list already held an id
C3_Witness ==
    /\ result.op = "complete_order"
    /\ result.status = "Ok"
    /\ Len(clients[result.value[1].client_id].order_ids) >= 2

\* C4: complete_order on an order that is already complete returns
\* AlreadyCompleted and changes neither the order, nor any client or supplier,
\* nor the counter.
C4_AlreadyCompletedNoChange ==
    \A id \in DOMAIN orders :
        orders[id].is_complete =>
            ~ENABLED (/\ complete_order(id)
                      /\ ~(/\ result'.status = "AlreadyCompleted"
                           /\ UNCHANGED stores))

\* a second complete_order hit a completed order
C4_Witness ==
    /\ result.op = "complete_order"
    /\ result.status = "AlreadyCompleted"
    /\ \E id \in DOMAIN orders : orders[id].is_complete

\* C5: complete_order returns NotFound on an id with no order and on an
\* incomplete order without a supplier; the order store and every client and
\* supplier stay as they were.
C5_CompleteNotFoundNoChange ==
    \A id \in IdRange :
        (\/ id \notin DOMAIN orders
         \/ (~orders[id].is_complete /\ orders[id].supplier_id = None))
            => ~ENABLED (/\ complete_order(id)
                         /\ ~(/\ result'.status = "NotFound"
                              /\ UNCHANGED <<orders, clients, suppliers>>))

\* complete_order returned NotFound while an order without supplier is stored
\* and a supplier exists
C5_Witness ==
    /\ result.op = "complete_order"
    /\ result.status = "NotFound"
    /\ DOMAIN suppliers # {}
    /\ \E id \in DOMAIN orders :
           ~orders[id].is_complete /\ orders[id].supplier_id = None

\* C6: every stored order's client_id is a key of the Client store and its
\* supplier_id, when set, a key of the Supplier store.
C6_OrderLinksResolve ==
    \A id \in DOMAIN orders :
        /\ orders[id].client_id \in DOMAIN clients
        /\ orders[id].supplier_id # None
               => orders[id].supplier_id[1] \in DOMAIN suppliers

\* an update_order has just stored an order with a client and a supplier
C6_Witness ==
    /\ result.op = "update_order"
    /\ result.status = "Ok"
    /\ result.value[1].id \in DOMAIN orders
    /\ orders[result.value[1].id].supplier_id # None
\* a payload the validation rules reject: name shorter than 3, phone length
\* outside 7..15; an order payload with an empty title
BadPerson(p) == Len(p.name) < 3 \/ Len(p.phone) < 7 \/ Len(p.phone) > 15
BadOrder(p) == Len(p.title) = 0
\* the call returned InvalidPayload and persisted nothing
RejectedInvalid == result'.status = "InvalidPayload" /\ UNCHANGED stores

\* C7: add_client, add_supplier, add_order and update_order called with a
\* payload that fails validation return InvalidPayload and leave the stores
\* and the counter as they were (for update_order: whatever the id).
C7_InvalidPayloadAnyId ==
    [][/\ \A p \in ClientPayload :
              (BadPerson(p) /\ add_client(p)) => RejectedInvalid
       /\ \A p \in SupplierPayload :
              (BadPerson(p) /\ add_supplier(p)) => RejectedInvalid
       /\ \A p \in OrderPayload :
              (BadOrder(p) /\ add_order(p)) => RejectedInvalid
       /\ \A id \in IdRange : \A p \in OrderPayload :
              (BadOrder(p) /\ update_order(id, p)) => RejectedInvalid]_vars

\* What the handlers do guarantee: add_client, add_supplier, add_order, and
\* update_order on the id of a stored order, called with a payload that fails
\* validation return InvalidPayload and leave the stores and the counter as
\* they were.
InvalidPayloadNoChange ==
    /\ \A p \in ClientPayload :
           BadPerson(p) => ~ENABLED (add_client(p) /\ ~RejectedInvalid)
    /\ \A p \in SupplierPayload :
           BadPerson(p) => ~ENABLED (add_supplier(p) /\ ~RejectedInvalid)
    /\ \A p \in OrderPayload :
           BadOrder(p) => ~ENABLED (add_order(p) /\ ~RejectedInvalid)
    /\ \A id \in DOMAIN orders : \A p \in OrderPayload :
           BadOrder(p) => ~ENABLED (update_order(id, p) /\ ~RejectedInvalid)

\* update_order has rejected a payload (so the id named a stored order)
InvalidPayloadRejected ==
    /\ result.op = "update_order"
    /\ result.status = "InvalidPayload"
    /\ DOMAIN orders # {}

\* a successful add_order returned and stored an order without supplier, not
\* complete and never updated
AddOrderFresh ==
    (result.op = "add_order" /\ result.status = "Ok") =>
        LET order == result.value[1]
        IN /\ order.supplier_id = None
           /\ order.is_complete = FALSE
           /\ order.updated_at = None
           /\ order.id \in DOMAIN orders
           /\ orders[order.id] = order
\* the call returned NotFound and persisted nothing
RejectedNotFound == result'.status = "NotFound" /\ UNCHANGED stores

\* C8 as stated: a successful add_order stores and returns an order with
\* supplier_id none, is_complete false and updated_at none; add_order with a
\* client_id that is not in the Client store returns NotFound, stores nothing
\* and leaves the counter (whatever the rest of the payload).
C8_AddOrderAnyPayload ==
    [][/\ AddOrderFresh'
       /\ \A p \in OrderPayload :
              (p.client_id \notin DOMAIN clients /\ add_order(p))
                  => RejectedNotFound]_vars

\* C8 amended: a successful add_order stores and returns an order with
\* supplier_id none, is_complete false and updated_at none, whatever the
\* payload carries; add_order with a payload that passes validation and a
\* client_id that is not in the Client store returns NotFound, stores nothing
\* and leaves the counter.
C8_AddOrderFreshOrNotFound ==
    /\ AddOrderFresh
    /\ \A p \in OrderPayload :
           (~BadOrder(p) /\ p.client_id \notin DOMAIN clients)
               => ~ENABLED (add_order(p) /\ ~RejectedNotFound)

\* add_order has stored an order while a supplier exists (every payload names
\* some supplier_id, and half of them carry is_complete = true)
C8_Witness ==
    /\ result.op = "add_order"
    /\ result.status = "Ok"
    /\ DOMAIN suppliers # {}

\* update_order leaves the id, created_at and is_complete of the order stored
\* under id as they were
KeepsIdentity(id) ==
    /\ id \in DOMAIN orders'
    /\ orders'[id].id = orders[id].id
    /\ orders'[id].created_at = orders[id].created_at
    /\ orders'[id].is_complete = orders[id].is_complete
\* the payload names a client or a supplier that is not stored
DanglingPayload(p) ==
    p.client_id \notin DOMAIN clients \/ p.supplier_id \notin DOMAIN suppliers

\* C9 as stated: update_order on a stored order never changes its id,
\* created_at or is_complete, and returns NotFound, leaving the order as it
\* was, whenever the payload's client_id or supplier_id is not stored.
C9_UpdateAnyPayload ==
    [][\A id \in DOMAIN orders : \A p \in OrderPayload :
           update_order(id, p) =>
               /\ KeepsIdentity(id)
               /\ DanglingPayload(p) =>
                      (result'.status = "NotFound" /\ orders' = orders)]_vars

\* C9 amended: update_order on a stored order never changes its id,
\* created_at or is_complete, and when the payload passes validation and its
\* client_id or supplier_id is not stored it returns NotFound and leaves the
\* stored order unchanged.
C9_UpdateKeepsIdentity ==
    \A id \in DOMAIN orders : \A p \in OrderPayload :
        /\ ~ENABLED (update_order(id, p) /\ ~KeepsIdentity(id))
        /\ (~BadOrder(p) /\ DanglingPayload(p))
               => ~ENABLED (/\ update_order(id, p)
                            /\ ~(/\ result'.status = "NotFound"
                                 /\ orders' = orders))

\* update_order has rewritten a completed order that was created earlier
C9_Witness ==
    /\ result.op = "update_order"
    /\ result.status = "Ok"
    /\ result.value[1].is_complete
    /\ result.value[1].updated_at # Some(result.value[1].created_at)

\* C10: update_order with an id that has no stored order returns NotFound to
\* the caller and leaves the stores unchanged.
C10_UpdateMissingNotFound ==
    [][\A id \in IdRange : \A p \in OrderPayload :
           (id \notin DOMAIN orders /\ update_order(id, p))
               => RejectedNotFound]_vars

\* the order stored under id afterwards is the one stored before, but for its
\* supplier and its update time, and no other order is touched
SupplierAttached(id, supplier_id) ==
    /\ DOMAIN orders' = DOMAIN orders
    /\ \A other \in DOMAIN orders \ {id} : orders'[other] = orders[other]
    /\ orders'[id] = [orders[id] EXCEPT !.supplier_id = Some(supplier_id),
                                        !.updated_at = Some(now)]
    /\ orders'[id].id = orders[id].id
    /\ orders'[id].title = orders[id].title
    /\ orders'[id].client_id = orders[id].client_id
    /\ orders'[id].item_types = orders[id].item_types
    /\ orders'[id].products = orders[id].products
    /\ orders'[id].is_complete = orders[id].is_complete
    /\ orders'[id].created_at = orders[id].created_at
    /\ result'.status = "Ok"
    /\ result'.value = Some(orders'[id])
    /\ UNCHANGED <<counter, clients, suppliers>>

\* C11: add_order_supplier returns NotFound and changes nothing when order_id
\* is not a stored order or supplier_id is not a stored supplier; otherwise it
\* sets the order's supplier_id and updated_at and leaves its id, title,
\* client_id, item_types, products, is_complete and created_at, the Client and
\* Supplier stores and the counter as they were.
C11_AddOrderSupplierFrame ==
    \A p \in AddOrderSupplierPayload :
        IF p.order_id \notin DOMAIN orders \/ p.supplier_id \notin DOMAIN suppliers
        THEN ~ENABLED (add_order_supplier(p) /\ ~RejectedNotFound)
        ELSE ~ENABLED (/\ add_order_supplier(p)
                       /\ ~SupplierAttached(p.order_id, p.supplier_id))

\* a completed order was given another supplier than the one it had
C11_Witness ==
    /\ result.op = "add_order_supplier"
    /\ result.status = "Ok"
    /\ result.value[1].is_complete
    /\ \E s \in DOMAIN suppliers :
           /\ s # result.value[1].supplier_id[1]
           /\ result.value[1].id \in
                  {suppliers[s].order_ids[i] : i \in DOMAIN suppliers[s].order_ids}

\* the ids in the list ids
Ids(ids) == {ids[i] : i \in DOMAIN ids}

\* the order stored under id is removed and returned, every other order stays
OrderRemoved(id) ==
    /\ result'.status = "Ok"
    /\ result'.value = Some(orders[id])
    /\ DOMAIN orders' = DOMAIN orders \ {id}
    /\ \A other \in DOMAIN orders' : orders'[other] = orders[other]
    /\ UNCHANGED <<counter, clients, suppliers>>

\* C12: delete_order(id) on a stored order removes exactly that order and
\* returns it, and on an id that is not stored returns NotFound; in both cases
\* the clients, the suppliers (their order_ids included) and the counter stay
\* as they were.
C12_DeleteOrderFrame ==
    \A id \in IdRange :
        IF id \in DOMAIN orders
        THEN ~ENABLED (delete_order(id) /\ ~OrderRemoved(id))
        ELSE ~ENABLED (delete_order(id) /\ ~RejectedNotFound)

\* a completed order was deleted while another order stays stored: its id is
\* still in a client's and in a supplier's order_ids
C12_Witness ==
    /\ result.op = "delete_order"
    /\ result.status = "Ok"
    /\ result.value[1].is_complete
    /\ result.value[1].id \notin DOMAIN orders
    /\ DOMAIN orders # {}
    /\ \E c \in DOMAIN clients : result.value[1].id \in Ids(clients[c].order_ids)
    /\ \E s \in DOMAIN suppliers : result.value[1].id \in Ids(suppliers[s].order_ids)

\* the list after is the list before, or the list before with one id appended
\* at its end
AppendedOrSame(before, after) ==
    \/ after = before
    \/ /\ Len(after) = Len(before) + 1
       /\ SubSeq(after, 1, Len(before)) = before

\* C13: no client or supplier record is ever removed, and an order_ids list
\* only ever changes by one id appended at its end, in a step that is a
\* successful complete_order.
C13_OrderIdsAppendOnly ==
    [][/\ \A c \in DOMAIN clients :
              /\ c \in DOMAIN clients'
              /\ AppendedOrSame(clients[c].order_ids, clients'[c].order_ids)
              /\ clients'[c].order_ids # clients[c].order_ids
                     => (result'.op = "complete_order" /\ result'.status = "Ok")
       /\ \A s \in DOMAIN suppliers :
              /\ s \in DOMAIN suppliers'
              /\ AppendedOrSame(suppliers[s].order_ids, suppliers'[s].order_ids)
              /\ suppliers'[s].order_ids # suppliers[s].order_ids
                     => (result'.op = "complete_order" /\ result'.status = "Ok")]_vars

\* a completion has appended to a supplier's list that already held an id
C13_Witness ==
    /\ result.op = "complete_order"
    /\ result.status = "Ok"
    /\ LET ids == suppliers[result.value[1].supplier_id[1]].order_ids
       IN /\ Len(ids) >= 2
          /\ ids[Len(ids)] = result.value[1].id

\* C14: an order that is stored with is_complete = true is still complete
\* after every step that leaves it stored.
C14_CompletedStaysCompleted ==
    [][\A id \in DOMAIN orders :
           (orders[id].is_complete /\ id \in DOMAIN orders')
               => orders'[id].is_complete]_vars

\* update_order has rewritten a completed order and moved it to another client
\* than the one whose order_ids hold it
C14_Witness ==
    /\ result.op = "update_order"
    /\ result.status = "Ok"
    /\ result.value[1].is_complete
    /\ result.value[1].updated_at = Some(now)
    /\ result.value[1].id \in DOMAIN orders
    /\ \E c \in DOMAIN clients :
           /\ c # result.value[1].client_id
           /\ result.value[1].id \in Ids(clients[c].order_ids)

\* C15: get_client(id) right after a successful add_client that returned id
\* gives the record that call returned: name, email and phone as in the
\* payload, order_ids empty, updated_at none. get_client on an id that is not
\* a key of the Client store (a supplier's or an order's id included) gives
\* NotFound.
C15_GetClientAfterAdd ==
    /\ \A id \in IdRange \ DOMAIN clients :
           get_client(id) = Reply("NotFound", None)
    /\ (result.op = "add_client" /\ result.status = "Ok") =>
           /\ get_client(result.value[1].id) = Reply("Ok", result.value[1])
           /\ get_client(result.value[1].id).value.order_ids = <<>>
           /\ get_client(result.value[1].id).value.updated_at = None
    /\ \A p \in ClientPayload :
           ~ENABLED (/\ add_client(p)
                     /\ result'.status = "Ok"
                     /\ ~(/\ result'.value[1].name = p.name
                          /\ result'.value[1].email = p.email
                          /\ result'.value[1].phone = p.phone))

\* a client was just added while a supplier and an order are stored, whose
\* ids get_client does not know
C15_Witness ==
    /\ result.op = "add_client"
    /\ result.status = "Ok"
    /\ get_client(result.value[1].id).status = "Ok"
    /\ \E s \in DOMAIN suppliers : get_client(s).status = "NotFound"
    /\ \E o \in DOMAIN orders : get_client(o).status = "NotFound"

\* the reply is NotFound when no order has its key in keys, and otherwise
\* lists the orders stored under keys, each one once
Answers(reply, keys) ==
    IF keys = {}
    THEN reply.status = "NotFound"
    ELSE /\ reply.status = "Ok"
         /\ Len(reply.value) = Cardinality(keys)
         /\ {reply.value[i].id : i \in DOMAIN reply.value} = keys
         /\ \A i \in DOMAIN reply.value :
                reply.value[i] = orders[reply.value[i].id]

\* C16: get_client_orders, get_supplier_orders and
\* get_supplier_completed_orders return NotFound when the client or supplier
\* is not stored; otherwise they return exactly the stored orders whose
\* client_id (supplier_id, and is_complete for the completed query) matches,
\* or NotFound when there is none. The order_ids lists play no part.
C16_OrdersByForeignKey ==
    \A e \in IdRange :
        /\ IF e \notin DOMAIN clients
           THEN get_client_orders(e).status = "NotFound"
           ELSE Answers(get_client_orders(e),
                        {id \in DOMAIN orders : orders[id].client_id = e})
        /\ IF e \notin DOMAIN suppliers
           THEN /\ get_supplier_orders(e).status = "NotFound"
                /\ get_supplier_completed_orders(e).status = "NotFound"
           ELSE /\ Answers(get_supplier_orders(e),
                        {id \in DOMAIN orders : orders[id].supplier_id = Some(e)})
                /\ Answers(get_supplier_completed_orders(e),
                        {id \in DOMAIN orders :
                             /\ orders[id].supplier_id = Some(e)
                             /\ orders[id].is_complete})

\* a client's order_ids hold an id, yet none of the orders get_client_orders
\* returns for it is in that list; and a supplier has orders but no completed
\* one
C16_Witness ==
    /\ \E c \in DOMAIN clients :
           /\ clients[c].order_ids # <<>>
           /\ get_client_orders(c).status = "Ok"
           /\ \A i \in DOMAIN get_client_orders(c).value :
                  get_client_orders(c).value[i].id \notin Ids(clients[c].order_ids)
    /\ \E s \in DOMAIN suppliers :
           /\ get_supplier_orders(s).status = "Ok"
           /\ get_supplier_completed_orders(s).status = "NotFound"

\* C17: get_orders returns all stored orders; get_incomplete_orders and
\* get_completed_orders return the stored orders with is_complete false and
\* true (each stored order is in exactly one of the two); each of the three
\* returns NotFound where its list would be empty.
C17_OrdersPartition ==
    /\ Answers(get_orders, DOMAIN orders)
    /\ Answers(get_incomplete_orders,
               {id \in DOMAIN orders : ~orders[id].is_complete})
    /\ Answers(get_completed_orders,
               {id \in DOMAIN orders : orders[id].is_complete})

\* complete and incomplete orders are stored side by side: the two filtered
\* lists split what get_orders returns
C17_Witness ==
    /\ get_orders.status = "Ok"
    /\ get_incomplete_orders.status = "Ok"
    /\ get_completed_orders.status = "Ok"
    /\ Len(get_orders.value) =
           Len(get_incomplete_orders.value) + Len(get_completed_orders.value)

\* the stored order under id meets every criterion that is set
Satisfies(id, c) ==
    /\ c.start_date # None => orders[id].created_at >= c.start_date[1]
    /\ c.end_date # None => orders[id].created_at <= c.end_date[1]
    /\ c.is_complete # None => orders[id].is_complete = c.is_complete[1]
    /\ c.client_id # None => orders[id].client_id = c.client_id[1]
    /\ c.supplier_id # None => orders[id].supplier_id = c.supplier_id
    /\ c.product # None => c.product[1] \in DOMAIN orders[id].products

\* C18: filter_orders_by_criteria with all criteria unset returns every
\* stored order (NotFound when none is stored), and with criteria that no
\* stored order satisfies jointly, such as is_complete = true with a client_id
\* that only has incomplete orders, it returns NotFound.
C18_FilterUnsetAndUnsatisfiable ==
    /\ Answers(filter_orders_by_criteria(NoCriteria), DOMAIN orders)
    /\ \A k \in IdRange :
           (\A id \in DOMAIN orders :
                orders[id].client_id = k => ~orders[id].is_complete)
               => filter_orders_by_criteria(
                      [NoCriteria EXCEPT !.is_complete = Some(TRUE),
                                         !.client_id = Some(k)]).status = "NotFound"
    /\ \A c \in Criteria :
           (\A id \in DOMAIN orders : ~Satisfies(id, c))
               => filter_orders_by_criteria(c).status = "NotFound"

\* two criteria that stored orders meet one by one, but none meets together:
\* an incomplete order is stored, and a supplier has an order, but only a
\* completed one
C18_Witness ==
    \E s \in DOMAIN suppliers :
        /\ filter_orders_by_criteria(
               [NoCriteria EXCEPT !.is_complete = Some(FALSE)]).status = "Ok"
        /\ filter_orders_by_criteria(
               [NoCriteria EXCEPT !.supplier_id = Some(s)]).status = "Ok"
        /\ filter_orders_by_criteria(
               [NoCriteria EXCEPT !.is_complete = Some(FALSE),
                                  !.supplier_id = Some(s)]).status = "NotFound"
        /\ filter_orders_by_criteria(NoCriteria).status = "Ok"
        /\ Len(filter_orders_by_criteria(NoCriteria).value) = 2

\* the order stored under id in os is complete, and no list in cs or ss
\* holds its id
Unlinked(id, os, cs, ss) ==
    /\ id \in DOMAIN os
    /\ os[id].is_complete
    /\ \A c \in DOMAIN cs : id \notin Ids(cs[c].order_ids)
    /\ \A s \in DOMAIN ss : id \notin Ids(ss[s].order_ids)

\* C19: complete_order writes the order, then the client, then the supplier,
\* one store at a time. When the call is stopped after the first write the
\* order is stored complete while no order_ids list holds its id; from then
\* on complete_order on that order returns AlreadyCompleted, and as long as
\* the order is stored no call puts its id into a list.
C19_ThreeWritesNoRepair ==
    /\ [](\A id \in DOMAIN orders :
              (Idle /\ Unlinked(id, orders, clients, suppliers)) =>
                  ~ENABLED (/\ complete_order_persist(id)
                            /\ result'.status # "AlreadyCompleted"))
    /\ [][/\ result'.status = "OrderWritten" =>
                 /\ Idle
                 /\ ~orders[result'.value[1].id].is_complete
                 /\ orders'[result'.value[1].id] = result'.value[1]
                 /\ result'.value[1].is_complete
                 /\ UNCHANGED <<clients, suppliers>>
          /\ result'.status = "ClientWritten" =>
                 /\ result.status = "OrderWritten"
                 /\ clients' # clients
                 /\ UNCHANGED <<orders, suppliers>>
          /\ (result.status = "ClientWritten" /\ result'.status = "Ok") =>
                 /\ suppliers' # suppliers
                 /\ UNCHANGED <<orders, clients>>
          /\ (result.status = "OrderWritten" /\ result'.status = "Fault") =>
                 Unlinked(result.value[1].id, orders', clients', suppliers')
          /\ \/ UNCHANGED <<orders, clients, suppliers>>
             \/ ~Idle
             \/ \A id \in DOMAIN orders :
                    (/\ Unlinked(id, orders, clients, suppliers)
                     /\ id \in DOMAIN orders')
                        => Unlinked(id, orders', clients', suppliers')]_vars

\* a call was stopped after its first write, and a later complete_order on
\* the same order has been turned away
C19_Witness ==
    /\ result.op = "complete_order"
    /\ result.status = "AlreadyCompleted"
    /\ \E id \in DOMAIN orders :
           /\ Unlinked(id, orders, clients, suppliers)
           /\ orders[id].client_id \in DOMAIN clients
           /\ orders[id].supplier_id # None
           /\ orders[id].supplier_id[1] \in DOMAIN suppliers

\* the clients in cs, and the suppliers in ss, whose order_ids hold id
ClientsHolding(id, cs) == {c \in DOMAIN cs : id \in Ids(cs[c].order_ids)}
SuppliersHolding(id, ss) == {s \in DOMAIN ss : id \in Ids(ss[s].order_ids)}

\* the order stored under id in os has its id in the order_ids of the client
\* and of the supplier it references
LinkedToCurrent(id, os, cs, ss) ==
    /\ os[id].client_id \in ClientsHolding(id, cs)
    /\ os[id].supplier_id # None
    /\ os[id].supplier_id[1] \in SuppliersHolding(id, ss)

\* C20 as stated: every stored order with is_complete = true has its id in the
\* order_ids of the client and of the supplier it currently references, also
\* after update_order or add_order_supplier on a completed order.
C20_CompletedLinkedToCurrent ==
    \A id \in DOMAIN orders :
        orders[id].is_complete =>
            LinkedToCurrent(id, orders, clients, suppliers)

\* C20, amended: every stored order with is_complete = true has its id in the
\* order_ids of exactly one client and exactly one supplier, the ones it
\* referenced when it was completed. They are the ones it references now
\* unless an update_order or add_order_supplier on this completed order has
\* changed its client_id or supplier_id: only those two calls take a completed
\* order away from the lists that hold its id, and they leave the lists alone.
C20_CompletedLinkedWhereCompleted ==
    [][\A id \in DOMAIN orders' :
           orders'[id].is_complete =>
               /\ Cardinality(ClientsHolding(id, clients')) = 1
               /\ Cardinality(SuppliersHolding(id, suppliers')) = 1
               /\ \/ LinkedToCurrent(id, orders', clients', suppliers')
                  \/ /\ id \in DOMAIN orders
                     /\ orders[id].is_complete
                     /\ ~LinkedToCurrent(id, orders, clients, suppliers)
                  \/ /\ id \in DOMAIN orders
                     /\ orders[id].is_complete
                     /\ result'.op \in {"update_order", "add_order_supplier"}
                     /\ result'.status = "Ok"
                     /\ result'.value[1].id = id
                     /\ UNCHANGED <<clients, suppliers>>]_vars

\* a completed order references a supplier whose order_ids do not hold its
\* id, while another supplier's do
C20_Witness ==
    \E id \in DOMAIN orders :
        /\ orders[id].is_complete
        /\ ~LinkedToCurrent(id, orders, clients, suppliers)
        /\ orders[id].supplier_id[1] \in DOMAIN suppliers
        /\ SuppliersHolding(id, suppliers) # {}

\* the ids that were handed out to orders: clients and suppliers are never
\* removed, so a handed-out id that is in neither store went to an order
OrderIdsIssued == issued \ (DOMAIN clients \cup DOMAIN suppliers)

\* every id in the list was handed out to an order that is deleted by now or
\* stored complete, and the list holds no id twice
CompletionLog(ids) ==
    \A i \in DOMAIN ids :
        /\ ids[i] \in OrderIdsIssued
        /\ ids[i] \in DOMAIN orders => orders[ids[i]].is_complete
        /\ Occurrences(ids, ids[i]) = 1

\* C21: each id in a client's or supplier's order_ids is an id the counter
\* once assigned to an order, and that order is either no longer stored or
\* stored with is_complete = true; no list holds an id more than once.
C21_OrderIdsAreCompletions ==
    /\ \A c \in DOMAIN clients : CompletionLog(clients[c].order_ids)
    /\ \A s \in DOMAIN suppliers : CompletionLog(suppliers[s].order_ids)

\* a client's list holds the id of a deleted order next to the id of a
\* stored, completed one
C21_Witness ==
    \E c \in DOMAIN clients :
        /\ \E i \in DOMAIN clients[c].order_ids :
               clients[c].order_ids[i] \notin DOMAIN orders
        /\ \E i \in DOMAIN clients[c].order_ids :
               clients[c].order_ids[i] \in DOMAIN orders

\* C22: a stored order with is_complete = true has its supplier_id set; once
\* a stored order's supplier_id is set, no step that leaves the order stored
\* returns it to none; and a successful update_order leaves the order it
\* rewrote with a supplier, also when it had none before.
C22_LifecycleForward ==
    [][/\ \A id \in DOMAIN orders' :
              orders'[id].is_complete => orders'[id].supplier_id # None
       /\ \/ UNCHANGED orders
          \/ \A id \in DOMAIN orders \cap DOMAIN orders' :
                 orders[id].supplier_id # None
                     => orders'[id].supplier_id # None
       /\ (result'.op = "update_order" /\ result'.status = "Ok") =>
              /\ orders'[result'.value[1].id] = result'.value[1]
              /\ orders'[result'.value[1].id].supplier_id # None]_vars

\* update_order has rewritten an incomplete order at the very time it was
\* created, before add_order_supplier could have run: it has a supplier now
C22_Witness ==
    /\ result.op = "update_order"
    /\ result.status = "Ok"
    /\ ~result.value[1].is_complete
    /\ result.value[1].created_at < MaxTime
    /\ result.value[1].updated_at = Some(result.value[1].created_at + 1)
    /\ orders[result.value[1].id].supplier_id # None

\* C23: every key of the Client, Supplier and Order stores is strictly less
\* than the counter, and every stored record has the key it is stored under
\* as its id.
C23_KeysBelowCounter ==
    /\ \A c \in DOMAIN clients : c < counter /\ clients[c].id = c
    /\ \A s \in DOMAIN suppliers : s < counter /\ suppliers[s].id = s
    /\ \A o \in DOMAIN orders : o < counter /\ orders[o].id = o

\* all three stores hold a record, update_order has just rewritten an order,
\* and the id handed out last went to an order that is deleted by now
C23_Witness ==
    /\ DOMAIN clients # {}
    /\ DOMAIN suppliers # {}
    /\ result.op = "update_order"
    /\ result.status = "Ok"
    /\ result.value[1].id \in DOMAIN orders
    /\ counter - 1 \in Retired
====
